---- MODULE Spec2Model ----
(***************************************************************************)
(* Incremental synchronisation core of the fear-and-greed index tracker:   *)
(* the SQLite record store (src/src/database.py), the remote reader and    *)
(* reconciler (src/src/fetcher.py), the backfill script                    *)
(* (src/fill_missing_data.py) and the level functions (src/src/config.py,  *)
(* src/export_fng_data.py).                                                *)
(*                                                                         *)
(* Calendar dates are day numbers (ISO date strings compare like the day   *)
(* numbers they denote).  A remote timestamp is a number of ticks since    *)
(* the epoch, TicksPerDay ticks to the day.  A raw remote value is a       *)
(* number of halves, so that 1 is 0.5, 50 is 25 and 200 is 100: the        *)
(* truncation of int(value) is then a real computation.                    *)
(***************************************************************************)
EXTENDS Integers, Sequences, FiniteSets, TLC

VARIABLES
    rows,      \* table fng_data: the set of committed rows [date, value]
    today,     \* datetime.now().date() as a day number
    pc,        \* where the single thread of control is
    op,        \* the running top-level call and its arguments
    pre,       \* content of fng_data before the last insert_records call
    payload,   \* what the last successful _fetch_from_api returned
    batch,     \* the list of FngRecord built by the last parse or caller
    result,    \* what the last call returned or raised
    url,       \* start date in the URL of the running _fetch_from_api
    attempt,   \* loop variable of the running _fetch_from_api
    nreq,      \* requests.get calls made by the running _fetch_from_api
    sleeps,    \* time.sleep durations of the running _fetch_from_api
    calls,     \* start dates _fetch_from_api was called with by the running call
    ninsert,   \* insert_records calls made by the running call
    todo,      \* fetch_missing_data: sorted dates not yet processed
    total,     \* fetch_missing_data: total_inserted
    errors,    \* fetch_missing_data: the errors list
    npolite,   \* fetch_missing_data: time.sleep(1) calls made
    nfail,     \* RequestExceptions met by the running _fetch_from_api
    exhausted, \* start dates whose _fetch_from_api raised, for the running call
    wfail,     \* sqlite3.Errors raised by insert_records in the running call
    sched,     \* FngScheduler: where start() is, and the run_update under way
    stopreq,   \* the operator has asked the running backfill to stop
    earlier    \* outcome of the earlier of two calls made on the same store

vars == <<rows, today, pc, op, pre, payload, batch, result, url, attempt, nreq,
          sleeps, calls, ninsert, todo, total, errors, npolite, nfail, exhausted,
          wfail, sched, stopreq, earlier>>

\* What only the scheduler, the operator or a comparison of two calls changes
harness == <<sched, stopreq, earlier>>

-----------------------------------------------------------------------------
(* Bounds of the model *)

MaxDay == 2
MaxBatch == 2
MaxWindow == 7

(* Program constants *)

MAX_RETRIES == 3
RETRY_DELAY == 5
DEFAULT_DAYS_BACK == 30
Avg7dLimit == 7
Avg30dLimit == 30
TicksPerDay == 2
HalvesPerUnit == 2

Days == 1..MaxDay

-----------------------------------------------------------------------------
(* Small helpers on sequences and sets *)

None == <<>>

Some(v) == <<v>>

SeqsUpTo(S, n) == UNION {[1..k -> S] : k \in 0..n}

MaxOf(S) == CHOOSE x \in S : \A y \in S : y <= x

MinOf(S) == CHOOSE x \in S : \A y \in S : x <= y

-----------------------------------------------------------------------------
(* Record Store: src/src/database.py *)

\* FngRecord(date, value)
FngRecord(d, v) == [date |-> d, value |-> v]

\* CREATE TABLE IF NOT EXISTS fng_data: an existing table is left as it is
InitDb(t) == t

\* A plain INSERT on a table without the date key
InsertRowNoKey(t, r) == t \cup {r}

\* ON CONFLICT the stored value is added to, not replaced
UpsertRowAccumulate(t, r) ==
    {x \in t : x.date # r.date}
        \cup {FngRecord(r.date, r.value + x.value) : x \in {y \in t : y.date = r.date}}
        \cup (IF \E x \in t : x.date = r.date THEN {} ELSE {r})

\* A record of value 0 removes the row of its date
UpsertRowDropZero(t, r) ==
    IF r.value = 0 THEN {x \in t : x.date # r.date}
    ELSE {x \in t : x.date # r.date} \cup {r}

\* INSERT INTO fng_data (date, value, updated_at) VALUES (?, ?, ...)
\* ON CONFLICT(date) DO UPDATE SET value = excluded.value
UpsertRow(t, r) == {x \in t : x.date # r.date} \cup {r}

\* The statement is run for the records from the last to the first
RECURSIVE ExecuteManyBackwards(_, _)
ExecuteManyBackwards(t, recs) ==
    IF recs = <<>> THEN t
    ELSE UpsertRow(ExecuteManyBackwards(t, Tail(recs)), Head(recs))

\* cursor.executemany: the statement is run for each record in list order
RECURSIVE ExecuteMany(_, _)
ExecuteMany(t, recs) ==
    IF recs = <<>> THEN t
    ELSE ExecuteMany(UpsertRow(t, Head(recs)), Tail(recs))

\* The transaction is left open and its rows stay when the block is left
\* by an exception
RollbackKeepsPartial(committed, txn) == txn

\* "with sqlite3.connect(...) as conn": leaving the block by an exception
\* rolls the open transaction back
Rollback(committed, txn) == committed

\* The count is the number of rows the batch added
RowCountNewDates(t, recs) ==
    Cardinality({recs[i].date : i \in DOMAIN recs} \ {r.date : r \in t})

\* cursor.rowcount after executemany: one per statement that inserted or
\* updated a row, and each statement of the upsert does one or the other
RowCount(t, recs) == Len(recs)

\* insert_records(records).  fail = 0: no storage failure; fail = k > 0: the
\* k-th statement of executemany raises sqlite3.Error after k-1 records were
\* applied inside the transaction.
InsertRecords(t, recs, fail) ==
    IF recs = <<>> THEN
        [rows |-> t, raised |-> FALSE, count |-> 0, applied |-> 0]
    ELSE IF fail = 0 THEN
        [rows |-> ExecuteMany(t, recs), raised |-> FALSE,
         count |-> RowCount(t, recs), applied |-> Len(recs)]
    ELSE
        [rows |-> Rollback(t, ExecuteMany(t, SubSeq(recs, 1, fail - 1))),
         raised |-> TRUE, count |-> 0, applied |-> fail - 1]

\* The storage failures a call of insert_records(recs) can meet
Failures(recs) == 0..Len(recs)

\* No WHERE clause
GenuineAll(t) == t

\* WHERE value > 0
Genuine(t) == {r \in t : r.value > 0}

\* get_latest_date: SELECT MAX(date) ... WHERE value > 0; <<>> is None
GetLatestDate(t) ==
    IF Genuine(t) = {} THEN <<>> ELSE <<MaxOf({r.date : r \in Genuine(t)})>>

\* get_earliest_date: SELECT MIN(date) ... WHERE value > 0; <<>> is None
GetEarliestDate(t) ==
    IF Genuine(t) = {} THEN <<>> ELSE <<MinOf({r.date : r \in Genuine(t)})>>

\* record_count: SELECT COUNT(*) ... WHERE value > 0
RecordCount(t) == Cardinality(Genuine(t))

\* ORDER BY date DESC of a set of rows
RECURSIVE OrderByDateDesc(_)
OrderByDateDesc(S) ==
    IF S = {} THEN <<>>
    ELSE LET head == CHOOSE r \in S : \A q \in S : r.date >= q.date
         IN <<head>> \o OrderByDateDesc(S \ {head})

\* ORDER BY date ASC of a set of rows
RECURSIVE OrderByDate(_)
OrderByDate(S) ==
    IF S = {} THEN <<>>
    ELSE LET head == CHOOSE r \in S : \A q \in S : r.date <= q.date
         IN <<head>> \o OrderByDate(S \ {head})

\* get_all_records: WHERE value > 0 ORDER BY date ASC
GetAllRecords(t) == OrderByDate(Genuine(t))

\* date >= start AND date < end
GetRecordsByRangeOpenEnd(t, start, end) ==
    OrderByDate({r \in Genuine(t) : start <= r.date /\ r.date < end})

\* get_records_by_range: WHERE date BETWEEN start AND end AND value > 0
\* ORDER BY date ASC
GetRecordsByRange(t, start, end) ==
    OrderByDate({r \in Genuine(t) : start <= r.date /\ r.date <= end})

\* Rows matched by the min_date query of get_stats:
\* WHERE value = (SELECT MIN(value) FROM fng_data WHERE value > 0)
MinDateRows(t) ==
    IF Genuine(t) = {} THEN {}
    ELSE {r \in t : r.value = MinOf({q.value : q \in Genuine(t)})}

\* Rows matched by the max_date query of get_stats:
\* WHERE value = (SELECT MAX(value) FROM fng_data)
MaxDateRows(t) ==
    IF t = {} THEN {}
    ELSE {r \in t : r.value = MaxOf({q.value : q \in t})}

\* LIMIT 1 without ORDER BY: any one of the matched rows; None if none
LimitOne(S) == IF S = {} THEN {None} ELSE {<<r.date>> : r \in S}

RECURSIVE SumValues(_)
SumValues(S) ==
    IF S = {} THEN 0
    ELSE LET r == CHOOSE x \in S : TRUE IN r.value + SumValues(S \ {r})

\* round(avg, 2) of the fraction sum / n, in hundredths
Round2(sum, n) == (200 * sum + n) \div (2 * n)

\* "round(avg, 2) if avg else 0" of AVG(value) over the rows S, in
\* hundredths; AVG over no row is NULL
AvgRounded(S) == IF S = {} THEN 0 ELSE Round2(SumValues(S), Cardinality(S))

\* Rows that go into SELECT AVG(value) FROM fng_data WHERE value > 0
\* ORDER BY date DESC LIMIT n.  The aggregate makes one result row out of
\* all rows that match WHERE; ORDER BY and LIMIT apply to that one row.
TrailingAvgRows(t, n) == IF n >= 1 THEN Genuine(t) ELSE {}

\* get_stats: the dictionaries it can return; the averages in hundredths
GetStats(t) ==
    {[total_records |-> Cardinality(Genuine(t)),
      avg_value |-> AvgRounded(Genuine(t)),
      avg_7d |-> AvgRounded(TrailingAvgRows(t, Avg7dLimit)),
      avg_30d |-> AvgRounded(TrailingAvgRows(t, Avg30dLimit)),
      min_value |-> IF Genuine(t) = {} THEN None
                    ELSE <<MinOf({r.value : r \in Genuine(t)})>>,
      max_value |-> IF Genuine(t) = {} THEN None
                    ELSE <<MaxOf({r.value : r \in Genuine(t)})>>,
      latest_date |-> IF Genuine(t) = {} THEN None
                      ELSE <<GetAllRecords(t)[Cardinality(Genuine(t))].date>>,
      latest_value |-> IF Genuine(t) = {} THEN None
                       ELSE <<GetAllRecords(t)[Cardinality(Genuine(t))].value>>,
      min_date |-> mn,
      max_date |-> mx] : mn \in LimitOne(MinDateRows(t)), mx \in LimitOne(MaxDateRows(t))}

\* ranges of get_distribution: (name, low, high)
DistributionRanges ==
    <<[name |-> "extreme_fear", low |-> 0, high |-> 25],
      [name |-> "fear", low |-> 25, high |-> 45],
      [name |-> "neutral", low |-> 45, high |-> 55],
      [name |-> "greed", low |-> 55, high |-> 75],
      [name |-> "extreme_greed", low |-> 75, high |-> 101]>>

\* The range takes its upper end: WHERE value >= low AND value <= high
RangeRowsClosed(t, rg) == {r \in t : r.value >= rg.low /\ r.value <= rg.high /\ r.value > 0}

\* Rows counted for one range: WHERE value >= low AND value < high AND value > 0
RangeRows(t, rg) == {r \in t : r.value >= rg.low /\ r.value < rg.high /\ r.value > 0}

\* get_distribution: name -> COUNT(*)
GetDistribution(t) ==
    [i \in DOMAIN DistributionRanges |-> Cardinality(RangeRows(t, DistributionRanges[i]))]

-----------------------------------------------------------------------------
(* Any caller of the store's write path *)

\* Values a caller can put in FngRecord.value (an unchecked int)
CallerValues == {0, 100, 150}

CallerBatches ==
    SeqsUpTo({FngRecord(d, v) : d \in Days, v \in CallerValues}, MaxBatch)

NoResult == [kind |-> "none"]

NoOp == [kind |-> "none"]

NoPayload == [shape |-> "unset"]

\* results of run_update as it starts
NoResults ==
    [data_update |-> None, doc_generated |-> FALSE, version_created |-> FALSE,
     error |-> None]

\* No FngScheduler has been started
NoScheduler ==
    [phase |-> "off", due |-> FALSE, active |-> 0, step |-> "none",
     results |-> NoResults, last |-> NoResults]

Idle ==
    /\ pc = "idle" /\ op = NoOp /\ pre = {} /\ payload = NoPayload
    /\ batch = <<>> /\ result = NoResult /\ url = <<>>
    /\ attempt = 0 /\ nreq = 0 /\ sleeps = <<>> /\ calls = <<>> /\ ninsert = 0
    /\ todo = <<>> /\ total = 0 /\ errors = <<>> /\ npolite = 0
    /\ nfail = 0 /\ exhausted = {} /\ wfail = 0
    /\ sched = NoScheduler /\ stopreq = FALSE /\ earlier = None

Init ==
    /\ rows = InitDb({})
    /\ today = 1
    /\ Idle

\* What insert_records hands back to its caller
InsertResult(out) ==
    IF out.raised
    THEN [kind |-> "raised", error |-> "sqlite3.Error", applied |-> out.applied]
    ELSE [kind |-> "returned", count |-> out.count]

\* db.insert_records(b) called from idle
CallerInsert(b, f) ==
    /\ pc = "idle"
    /\ LET out == InsertRecords(rows, b, f) IN
        /\ rows' = out.rows
        /\ result' = InsertResult(out)
        /\ wfail' = IF out.raised THEN 1 ELSE 0
    /\ pre' = rows
    /\ batch' = b
    /\ op' = [kind |-> "insert_records"]
    /\ ninsert' = 1
    /\ pc' = "called"
    /\ UNCHANGED <<today, payload, url, attempt, nreq, sleeps, calls, todo, total,
                   errors, npolite, nfail, exhausted,
                   harness>>

\* db.insert_records called again with the batch of the call before
CallerReinsert(f) ==
    /\ pc = "called"
    /\ result.kind = "returned"
    /\ LET out == InsertRecords(rows, batch, f) IN
        /\ rows' = out.rows
        /\ result' = InsertResult(out)
        /\ wfail' = IF out.raised THEN wfail + 1 ELSE wfail
    /\ pre' = rows
    /\ ninsert' = 2
    /\ pc' = "recalled"
    /\ UNCHANGED <<today, op, payload, batch, url, attempt, nreq, sleeps, calls, todo,
                   total, errors, npolite, nfail, exhausted,
                   harness>>

\* The caller is done with the result
CallerReturn ==
    /\ pc \in {"called", "recalled"}
    /\ pc' = "idle" /\ op' = NoOp /\ pre' = {} /\ batch' = <<>>
    /\ result' = NoResult /\ ninsert' = 0 /\ wfail' = 0
    /\ UNCHANGED <<rows, today, payload, url, attempt, nreq, sleeps, calls, todo,
                   total, errors, npolite, nfail, exhausted,
                   harness>>

NextStore ==
    \/ \E b \in CallerBatches : \E f \in Failures(b) : CallerInsert(b, f)
    \/ \E f \in Failures(batch) : CallerReinsert(f)
    \/ CallerReturn

SpecStore == Init /\ [][NextStore]_vars

-----------------------------------------------------------------------------
(* Remote Reader: src/src/fetcher.py *)

\* datetime.fromtimestamp(timestamp / 1000).strftime("%Y-%m-%d")
DateOf(ts) == ts \div TicksPerDay

\* int(value): truncation towards zero of a number given in halves
IntOf(v) == IF v >= 0 THEN v \div HalvesPerUnit ELSE -((-v) \div HalvesPerUnit)

\* 0 <= value <= 100, value in halves
InRange(v) == 0 <= v /\ v <= 100 * HalvesPerUnit

\* One item of the "data" list through the body of the parse loop: the list
\* of records it appends (none or one)
ParseItem(item) ==
    IF item.x # None /\ item.x # Some(0) /\ item.y # None
    THEN IF InRange(item.y[1])
         THEN <<FngRecord(DateOf(item.x[1]), IntOf(item.y[1]))>>
         ELSE <<>>
    ELSE <<>>

\* The parse loop stops at the first item it rejects
RECURSIVE ParseItemsUntilInvalid(_)
ParseItemsUntilInvalid(items) ==
    IF items = <<>> \/ ParseItem(Head(items)) = <<>> THEN <<>>
    ELSE ParseItem(Head(items)) \o ParseItemsUntilInvalid(Tail(items))

\* for item in historical: the loop goes on after an item it rejects
RECURSIVE ParseItems(_)
ParseItems(items) ==
    IF items = <<>> THEN <<>>
    ELSE ParseItem(Head(items)) \o ParseItems(Tail(items))

\* A response without the data list is read as one record of value 0
ParseApiDataPlaceholder(p) ==
    IF p.shape = "data" THEN ParseItems(p.data) ELSE <<FngRecord(0, 0)>>

\* _parse_api_data(data).  shape "empty": None or {}; "no_series": the key
\* fear_and_greed_historical is missing; "no_list": the series has no "data"
ParseApiData(p) ==
    IF p.shape \in {"empty", "no_series"} THEN <<>>
    ELSE IF p.shape = "no_list" THEN ParseItems(<<>>)
    ELSE ParseItems(p.data)

\* One wait of the retry loop that does not grow with the attempt
WaitTimeFlat(a) == RETRY_DELAY

\* wait_time = RETRY_DELAY * (attempt + 1)
WaitTime(a) == RETRY_DELAY * (a + 1)

\* The loop retries once more than range(MAX_RETRIES) allows
LastAttemptLate(a) == a >= MAX_RETRIES

\* "attempt < MAX_RETRIES - 1" is false: the attempt that raises
LastAttempt(a) == ~(a < MAX_RETRIES - 1)

-----------------------------------------------------------------------------
(* What the remote can answer *)

\* Timestamps of the remote's observations: noon of each day
RemoteTicks == {d * TicksPerDay + 1 : d \in Days}

\* Raw values of the remote's observations, in halves: 0, 10, 60 and 150
RemoteValues == {0, 20, 120, 300}

\* An observation without its timestamp and one without its value
RemoteGaps ==
    {[x |-> None, y |-> Some(20)], [x |-> Some(TicksPerDay + 1), y |-> None]}

RemoteItems ==
    {[x |-> Some(t), y |-> Some(v)] : t \in RemoteTicks, v \in RemoteValues}
        \cup RemoteGaps

DataPayload(items) == [shape |-> "data", data |-> items]

RemotePayloads ==
    {[shape |-> s] : s \in {"empty", "no_series", "no_list"}}
        \cup {DataPayload(items) : items \in SeqsUpTo(RemoteItems, MaxBatch)}

-----------------------------------------------------------------------------
(* Reconciler: fetch_incremental and fetch_full of src/src/fetcher.py, and
   fetch_missing_data of src/fill_missing_data.py *)

\* days_back arguments: the default and the shortest lookback
Lookbacks == {1, DEFAULT_DAYS_BACK}

Returned(n, msg) == [kind |-> "returned", count |-> n, message |-> msg]

Raised(e) == [kind |-> "raised", error |-> e]

\* The window starts on the latest date itself
IncrementalStartSameDay(t, now, daysBack) ==
    IF GetLatestDate(t) # None THEN GetLatestDate(t)[1] ELSE now - daysBack

\* The window starts two days after the latest date
IncrementalStartSkipsDay(t, now, daysBack) ==
    IF GetLatestDate(t) # None THEN GetLatestDate(t)[1] + 2 ELSE now - daysBack

\* Without a latest date the window starts now
IncrementalStartNoLookback(t, now, daysBack) ==
    IF GetLatestDate(t) # None THEN GetLatestDate(t)[1] + 1 ELSE now

\* start_date of fetch_incremental: the day after the latest date, or
\* days_back days before now when the store has no latest date
IncrementalStart(t, now, daysBack) ==
    IF GetLatestDate(t) # None THEN GetLatestDate(t)[1] + 1 ELSE now - daysBack

\* start_date.date() >= datetime.now().date()
AlreadyCurrent(start, now) == start >= now

\* Enter _fetch_from_api(start)
EnterFetch(start) ==
    /\ url' = Some(start)
    /\ calls' = Append(calls, start)
    /\ attempt' = 0 /\ nreq' = 0 /\ sleeps' = <<>> /\ nfail' = 0
    /\ pc' = "request"

\* fetch_incremental(days_back) up to the request or the early return
StartIncremental(daysBack) ==
    /\ pc = "idle"
    /\ op' = [kind |-> "fetch_incremental", days_back |-> daysBack]
    /\ LET start == IncrementalStart(rows, today, daysBack) IN
        IF AlreadyCurrent(start, today)
        THEN /\ result' = Returned(0, "already_current")
             /\ pc' = "done"
             /\ UNCHANGED <<url, calls, attempt, nreq, sleeps, nfail>>
        ELSE /\ EnterFetch(start)
             /\ UNCHANGED result
    /\ UNCHANGED <<rows, today, pre, payload, batch, ninsert, todo, total,
                   errors, npolite, exhausted,
                   wfail,
                   harness>>

\* fetch_full(start_date) up to the request
StartFull(start) ==
    /\ pc = "idle"
    /\ op' = [kind |-> "fetch_full", start |-> start]
    /\ EnterFetch(start)
    /\ UNCHANGED <<rows, today, pre, payload, batch, result, ninsert, todo, total,
                   errors, npolite, exhausted,
                   wfail,
                   harness>>

\* The except clause of the backfill loop forgets the error
OnDateErrorDropped(errs, d, e) == errs

\* except Exception as e: errors.append(f"{date}: {str(e)}")
OnDateError(errs, d, e) == Append(errs, [date |-> d, error |-> e])

\* The last failure is taken for an empty response
FetchExhaustedAsNoData(e) == Returned(0, "no_data")

\* raise RuntimeError(...) of _fetch_from_api, which neither fetch_incremental
\* nor fetch_full catches
FetchExhausted(e) == Raised(e)

\* One requests.get of the retry loop raises a RequestException (timeout,
\* connection error or raise_for_status on an error status)
RequestFails ==
    /\ pc = "request"
    /\ nreq' = nreq + 1
    /\ nfail' = nfail + 1
    /\ IF LastAttempt(attempt)
       THEN \* raise RuntimeError
            /\ exhausted' = exhausted \cup {url[1]}
            /\ UNCHANGED <<attempt, sleeps>>
            /\ IF op.kind = "fetch_missing_data"
               THEN \* except Exception as e: errors.append(...)
                    /\ errors' = OnDateError(errors, Head(todo), "RuntimeError")
                    /\ pc' = "paced"
                    /\ UNCHANGED result
               ELSE /\ result' = FetchExhausted("RuntimeError")
                    /\ pc' = "done"
                    /\ UNCHANGED errors
       ELSE /\ sleeps' = Append(sleeps, WaitTime(attempt))
            /\ attempt' = attempt + 1
            /\ UNCHANGED <<pc, result, errors, exhausted>>
    /\ UNCHANGED <<rows, today, op, pre, payload, batch, url, calls, ninsert, todo,
                   total, npolite,
                   wfail,
                   harness>>

\* One requests.get of the retry loop succeeds: return response.json()
RequestSucceeds ==
    /\ pc = "request"
    /\ nreq' = nreq + 1
    /\ pc' = "fetched"
    /\ UNCHANGED <<rows, today, op, pre, payload, batch, result, url, attempt, sleeps,
                   calls, ninsert, todo, total, errors, npolite, nfail, exhausted,
                   wfail,
                   harness>>

\* A failed write is reported as a count of 0
SyncResultSwallowed(out) == Returned(out.count, "fetched")

\* inserted = self.db.insert_records(records); return inserted, message.
\* Nothing catches what insert_records raises.
SyncResult(out) ==
    IF out.raised THEN Raised("sqlite3.Error") ELSE Returned(out.count, "fetched")

\* The total is the count of the last date
RunningTotalLast(t, n) == n

\* total_inserted += inserted
RunningTotal(t, n) == t + n

\* The write is made also when no record survived the parse
NothingToStoreNever(records) == FALSE

\* "if not records": the call is over (fetch_incremental, fetch_full) or the
\* write is skipped (fetch_missing_data's "if records")
NothingToStore(records) == records = <<>>

\* After _fetch_from_api returned p, the body of the response: parse, and
\* write the records if there are any.  f is the storage failure the write
\* meets (0: none).  The locals of _fetch_from_api are gone.
StoreRecords(p, f) ==
    /\ pc = "fetched"
    /\ payload' = p
    /\ attempt' = 0 /\ nreq' = 0 /\ sleeps' = <<>> /\ nfail' = 0
    /\ pre' = rows
    /\ LET records == ParseApiData(p)
           out == InsertRecords(rows, records, f)
       IN
        /\ f \in Failures(records)
        /\ batch' = records
        /\ IF NothingToStore(records)
           THEN /\ UNCHANGED <<rows, ninsert, total, errors, wfail>>
                /\ IF op.kind = "fetch_missing_data"
                   THEN /\ npolite' = npolite + 1
                        /\ pc' = "paced"
                        /\ UNCHANGED result
                   ELSE /\ result' = Returned(0, "no_data")
                        /\ pc' = "done"
                        /\ UNCHANGED npolite
           ELSE /\ rows' = out.rows
                /\ ninsert' = ninsert + 1
                /\ wfail' = IF out.raised THEN wfail + 1 ELSE wfail
                /\ IF op.kind = "fetch_missing_data"
                   THEN /\ pc' = "paced"
                        /\ UNCHANGED result
                        /\ IF out.raised
                           THEN /\ errors' = OnDateError(errors, Head(todo), "sqlite3.Error")
                                /\ UNCHANGED <<total, npolite>>
                           ELSE /\ total' = RunningTotal(total, out.count)
                                /\ npolite' = npolite + 1
                                /\ UNCHANGED errors
                   ELSE /\ pc' = "done"
                        /\ result' = SyncResult(out)
                        /\ UNCHANGED <<total, errors, npolite>>
    /\ UNCHANGED <<today, op, url, calls, todo, exhausted,
                   harness>>

\* sorted(dates) for a list without repeats
SortedSeq(S) ==
    CHOOSE s \in [1..Cardinality(S) -> S] :
        \A i, j \in 1..Cardinality(S) : i < j => s[i] < s[j]

\* What fetch_missing_data returns: (total_inserted, status), the status
\* naming the total and, if any date failed, the number of failed dates
BackfillResult(n, errs) ==
    [kind |-> "returned", count |-> n, message |-> "inserted", failed |-> Len(errs)]

\* fetch_missing_data(fetcher, dates) up to the first request
StartBackfill(dates) ==
    /\ pc = "idle"
    /\ op' = [kind |-> "fetch_missing_data", dates |-> dates]
    /\ IF dates = {}
       THEN /\ result' = Returned(0, "nothing_missing")
            /\ pc' = "done"
            /\ UNCHANGED <<todo, url, calls, attempt, nreq, sleeps, nfail>>
       ELSE /\ todo' = SortedSeq(dates)
            /\ EnterFetch(SortedSeq(dates)[1])
            /\ UNCHANGED result
    /\ UNCHANGED <<rows, today, pre, payload, batch, ninsert, total, errors, npolite,
                   exhausted,
                   wfail,
                   harness>>

\* The for loop of fetch_missing_data moves to the next date, or the call
\* returns after the last one
NextDate ==
    /\ pc = "paced"
    /\ todo' = Tail(todo)
    /\ pre' = {} /\ payload' = NoPayload /\ batch' = <<>>
    /\ IF Tail(todo) = <<>>
       THEN /\ result' = BackfillResult(total, errors)
            /\ pc' = "done"
            /\ url' = <<>> /\ attempt' = 0 /\ nreq' = 0 /\ sleeps' = <<>> /\ nfail' = 0
            /\ UNCHANGED calls
       ELSE /\ EnterFetch(Tail(todo)[1])
            /\ UNCHANGED result
    /\ UNCHANGED <<rows, today, op, ninsert, total, errors, npolite, exhausted,
                   wfail,
                   harness>>

\* The operator asks a running fetch_missing_data to stop.  The function
\* takes (fetcher, dates) and nothing else, and its loop reads no flag: the
\* request is noted here and nothing in the program looks at it.
RequestStop ==
    /\ op.kind = "fetch_missing_data"
    /\ pc \in {"request", "fetched", "paced"}
    /\ ~stopreq
    /\ stopreq' = TRUE
    /\ UNCHANGED <<rows, today, pc, op, pre, payload, batch, result, url, attempt,
                   nreq, sleeps, calls, ninsert, todo, total, errors, npolite, nfail,
                   exhausted, wfail, sched, earlier>>

-----------------------------------------------------------------------------
(* analyze_missing_dates of src/fill_missing_data.py *)

\* datetime.weekday(): Monday is 0 and Sunday is 6.  Day 0, the day of the
\* epoch, was a Thursday.
Weekday(d) == (d + 3) % 7

\* Only the Sunday counts as weekend
IsWeekendSundayOnly(wd) == wd >= 6

\* current.weekday() >= 5
IsWeekend(wd) == wd >= 5

\* The days the while loop visits: start_date, start_date + 1 day, ...,
\* as long as current <= today
WindowDates(now, days) == [i \in 1..(days + 1) |-> now - days + i - 1]

\* analyze_missing_dates(db, days)
AnalyzeMissingDates(t, now, days) ==
    LET records == GetRecordsByRange(t, now - days, now)
        record_dates == {records[i].date : i \in DOMAIN records}
        Missing(d) == d \notin record_dates
        OnWeekend(d) == IsWeekend(Weekday(d))
        OnWeekday(d) == ~IsWeekend(Weekday(d))
        missing_dates == SelectSeq(WindowDates(now, days), Missing)
        missing_weekends == SelectSeq(missing_dates, OnWeekend)
        missing_weekdays == SelectSeq(missing_dates, OnWeekday)
    IN [total_missing |-> Len(missing_dates),
        weekend_missing |-> Len(missing_weekends),
        weekday_missing |-> Len(missing_weekdays),
        weekend_dates |-> missing_weekends,
        weekday_dates |-> missing_weekdays,
        all_missing |-> missing_dates]

\* days arguments: one day and the longest window of the model
AnalysisWindows == {1, MaxWindow}

\* analysis = analyze_missing_dates(db, days)
AnalyzeMissing(days) ==
    /\ pc = "idle"
    /\ op' = [kind |-> "analyze_missing_dates", days |-> days]
    /\ result' = [kind |-> "analysis",
                  analysis |-> AnalyzeMissingDates(rows, today, days)]
    /\ pc' = "done"
    /\ UNCHANGED <<rows, today, pre, payload, batch, url, attempt, nreq, sleeps,
                   calls, ninsert, todo, total, errors, npolite, nfail, exhausted,
                   wfail, harness>>

-----------------------------------------------------------------------------
(* import_from_csv of src/src/fetcher.py *)

Num(v) == [kind |-> "num", v |-> v]

\* Cells of the value column: -0.5, 60.5, 150, a text that is no number, NaN
CsvValues == {Num(-1), Num(121), Num(300), [kind |-> "text"], [kind |-> "nan"]}

\* Cells of the date column: NaN or a date
CsvDates == {None} \cup {Some(d) : d \in Days}

CsvLines == {[date |-> d, value |-> v] : d \in CsvDates, v \in CsvValues}

\* "unreadable": pd.read_csv raises; "no_columns": no date or value column
CsvFiles ==
    {[shape |-> s, lines |-> <<>>] : s \in {"unreadable", "no_columns"}}
        \cup {[shape |-> "table", lines |-> ls] : ls \in SeqsUpTo(CsvLines, MaxBatch)}

\* One line of the file through the body of the loop over df.iterrows()
ParseCsvLine(line) ==
    IF line.date = None \/ line.value.kind = "nan" THEN <<>>
    ELSE IF line.value.kind = "text" THEN <<>>
    ELSE IF 0 <= IntOf(line.value.v) /\ IntOf(line.value.v) <= 100
         THEN <<FngRecord(line.date[1], IntOf(line.value.v))>>
         ELSE <<>>

RECURSIVE ParseCsvLines(_)
ParseCsvLines(ls) ==
    IF ls = <<>> THEN <<>>
    ELSE ParseCsvLine(Head(ls)) \o ParseCsvLines(Tail(ls))

\* import_from_csv(csv_path), the file read being file and f the storage
\* failure the write meets (0: none)
ImportCsv(file, f) ==
    /\ pc = "idle"
    /\ op' = [kind |-> "import_from_csv"]
    /\ pc' = "done"
    /\ IF file.shape = "unreadable"
       THEN /\ f = 0
            /\ result' = Returned(0, "import_failed")
            /\ UNCHANGED <<rows, pre, batch, ninsert, wfail>>
       ELSE IF file.shape = "no_columns"
       THEN /\ f = 0
            /\ result' = Returned(0, "format_mismatch")
            /\ UNCHANGED <<rows, pre, batch, ninsert, wfail>>
       ELSE LET records == ParseCsvLines(file.lines)
                out == InsertRecords(rows, records, f)
            IN
             /\ f \in Failures(records)
             /\ batch' = records
             /\ pre' = rows
             /\ rows' = out.rows
             /\ ninsert' = ninsert + 1
             /\ wfail' = IF out.raised THEN wfail + 1 ELSE wfail
             /\ result' = IF out.raised THEN Returned(0, "import_failed")
                           ELSE Returned(out.count, "imported")
    /\ UNCHANGED <<today, payload, url, attempt, nreq, sleeps, calls, todo, total,
                   errors, npolite, nfail, exhausted,
                   harness>>

-----------------------------------------------------------------------------
(* Reading the statistics and opening the database again *)

\* stats = db.get_stats()
ReadStats ==
    /\ pc = "idle"
    /\ op' = [kind |-> "get_stats"]
    /\ \E st \in GetStats(rows) : result' = [kind |-> "stats", stats |-> st]
    /\ pc' = "done"
    /\ UNCHANGED <<rows, today, pre, payload, batch, url, attempt, nreq, sleeps,
                   calls, ninsert, todo, total, errors, npolite, nfail, exhausted,
                   wfail,
                   harness>>

\* db = FngDatabase() on the database file that exists: _init_db runs
\* CREATE TABLE IF NOT EXISTS
OpenDatabase ==
    /\ pc = "idle"
    /\ op' = [kind |-> "_init_db"]
    /\ rows' = InitDb(rows)
    /\ pc' = "done"
    /\ UNCHANGED <<today, pre, payload, batch, result, url, attempt, nreq, sleeps,
                   calls, ninsert, todo, total, errors, npolite, nfail, exhausted,
                   wfail, harness>>

\* The frame of the top-level call is gone
ResetCall ==
    /\ pc' = "idle" /\ op' = NoOp /\ pre' = {} /\ payload' = NoPayload
    /\ batch' = <<>> /\ result' = NoResult /\ url' = <<>>
    /\ attempt' = 0 /\ nreq' = 0 /\ sleeps' = <<>> /\ calls' = <<>> /\ ninsert' = 0
    /\ todo' = <<>> /\ total' = 0 /\ errors' = <<>> /\ npolite' = 0
    /\ nfail' = 0 /\ exhausted' = {} /\ wfail' = 0
    /\ stopreq' = FALSE
    /\ UNCHANGED <<rows, today>>

\* The top-level call is over
Return ==
    /\ pc = "done"
    /\ ResetCall
    /\ UNCHANGED <<sched, earlier>>

\* A day passes between two calls
Tick ==
    /\ pc = "idle"
    /\ today <= MaxDay
    /\ today' = today + 1
    /\ UNCHANGED <<rows, pc, op, pre, payload, batch, result, url, attempt, nreq,
                   sleeps, calls, ninsert, todo, total, errors, npolite, nfail, exhausted,
                   wfail,
                   harness>>

Next ==
    \/ \E n \in Lookbacks : StartIncremental(n)
    \/ \E d \in Days : StartFull(d)
    \/ \E D \in SUBSET Days : StartBackfill(D)
    \/ RequestFails
    \/ RequestSucceeds
    \/ \E p \in RemotePayloads : \E f \in 0..MaxBatch : StoreRecords(p, f)
    \/ NextDate
    \/ RequestStop
    \/ \E file \in CsvFiles : \E f \in 0..MaxBatch : ImportCsv(file, f)
    \/ \E n \in AnalysisWindows : AnalyzeMissing(n)
    \/ ReadStats
    \/ OpenDatabase
    \/ Return
    \/ Tick

Spec == Init /\ [][Next]_vars

-----------------------------------------------------------------------------
(* FngScheduler of src/src/scheduler.py.  sched.phase is where start() is:
   "first" in the run it makes at once, "loop" between two run_pending
   calls, "job" in a run that run_pending started.  sched.due says that the
   job's next_run has come; sched.active counts the run_update executions
   under way and sched.step is where the one under way is. *)

\* scheduler.start(): the job is registered and the first run is about to
\* be made
SchedulerStart ==
    /\ sched.phase = "off" /\ pc = "idle"
    /\ sched' = [sched EXCEPT !.phase = "first"]
    /\ UNCHANGED <<rows, today, pc, op, pre, payload, batch, result, url, attempt,
                   nreq, sleeps, calls, ninsert, todo, total, errors, npolite, nfail,
                   exhausted, wfail, stopreq, earlier>>

\* The clock reaches the job's next_run, whatever start() is doing
JobDue ==
    /\ sched.phase \in {"first", "loop", "job"}
    /\ ~sched.due
    /\ sched' = [sched EXCEPT !.due = TRUE]
    /\ UNCHANGED <<rows, today, pc, op, pre, payload, batch, result, url, attempt,
                   nreq, sleeps, calls, ninsert, todo, total, errors, npolite, nfail,
                   exhausted, wfail, stopreq, earlier>>

\* The job is run on a thread of its own whenever it is due
MayDispatchWhileRunning(s) == s.due /\ s.phase \in {"first", "loop", "job"}

\* schedule.run_pending() is called from the while loop of start(), and
\* runs the job in the calling thread if it is due
MayDispatch(s) == s.due /\ s.phase = "loop"

\* _safe_run_update() enters run_update(): by start() itself for the first
\* run, by run_pending() for the later ones
RunBegin ==
    /\ \/ sched.phase = "first" /\ sched.step = "none"
       \/ MayDispatch(sched)
    /\ sched' = [sched EXCEPT !.phase = IF sched.phase = "first" THEN "first" ELSE "job",
                              !.active = sched.active + 1,
                              !.step = "fetch",
                              !.results = NoResults]
    /\ UNCHANGED <<rows, today, pc, op, pre, payload, batch, result, url, attempt,
                   nreq, sleeps, calls, ninsert, todo, total, errors, npolite, nfail,
                   exhausted, wfail, stopreq, earlier>>

\* count, message = self.fetcher.fetch_incremental()
RunFetch ==
    /\ sched.step = "fetch"
    /\ StartIncremental(DEFAULT_DAYS_BACK)

\* The error of the fetch is noted and the run goes on with the documents
AfterFetchContinues(s, r) ==
    IF r.kind = "raised"
    THEN [s EXCEPT !.step = "doc", !.results.error = Some(r.error)]
    ELSE [s EXCEPT !.step = "doc", !.results.data_update = Some(r.count)]

\* The try block of run_update after fetch_incremental: on an exception
\* control goes to "except Exception as e: results["error"] = str(e)", past
\* generate_readme and create_version
AfterFetch(s, r) ==
    IF r.kind = "raised"
    THEN [s EXCEPT !.step = "end", !.results.error = Some(r.error)]
    ELSE [s EXCEPT !.step = "doc", !.results.data_update = Some(r.count)]

\* fetch_incremental is over: results["data_update"] is set, or the
\* exception it raised is caught and results["error"] set
RunAfterFetch ==
    /\ sched.step = "fetch" /\ pc = "done"
    /\ sched' = AfterFetch(sched, result)
    /\ ResetCall
    /\ UNCHANGED earlier

\* readme_path = self.doc_generator.generate_readme(), which returns the
\* path or raises
GenerateReadme(ok) ==
    /\ sched.step = "doc"
    /\ sched' =
        IF ok THEN [sched EXCEPT !.step = "version", !.results.doc_generated = TRUE]
        ELSE [sched EXCEPT !.step = "end", !.results.error = Some("doc")]
    /\ UNCHANGED <<rows, today, pc, op, pre, payload, batch, result, url, attempt,
                   nreq, sleeps, calls, ninsert, todo, total, errors, npolite, nfail,
                   exhausted, wfail, stopreq, earlier>>

\* version_result = self.version_control.create_version(files_to_backup),
\* which returns or raises
CreateVersion(ok) ==
    /\ sched.step = "version"
    /\ sched' =
        IF ok THEN [sched EXCEPT !.step = "end", !.results.version_created = TRUE]
        ELSE [sched EXCEPT !.step = "end", !.results.error = Some("version")]
    /\ UNCHANGED <<rows, today, pc, op, pre, payload, batch, result, url, attempt,
                   nreq, sleeps, calls, ninsert, todo, total, errors, npolite, nfail,
                   exhausted, wfail, stopreq, earlier>>

\* run_update returns results, _safe_run_update prints and returns; the
\* schedule library then sets the job's next_run one interval from now
RunEnd ==
    /\ sched.step = "end"
    /\ sched' = [sched EXCEPT !.phase = "loop",
                              !.active = sched.active - 1,
                              !.step = "none",
                              !.due = FALSE,
                              !.last = sched.results,
                              !.results = NoResults]
    /\ UNCHANGED <<rows, today, pc, op, pre, payload, batch, result, url, attempt,
                   nreq, sleeps, calls, ninsert, todo, total, errors, npolite, nfail,
                   exhausted, wfail, stopreq, earlier>>

\* SIGINT or SIGTERM: _signal_handler calls stop() and sys.exit(0), or
\* KeyboardInterrupt ends the first run; neither is caught by
\* "except Exception", and the process ends
Signal ==
    /\ sched.phase \in {"first", "loop", "job"}
    /\ sched' = [sched EXCEPT !.phase = "exited", !.active = 0, !.step = "none",
                              !.results = NoResults]
    /\ ResetCall
    /\ UNCHANGED earlier

NextScheduler ==
    \/ SchedulerStart
    \/ JobDue
    \/ RunBegin
    \/ RunFetch
    \/ RequestFails
    \/ RequestSucceeds
    \/ \E p \in RemotePayloads : \E f \in 0..MaxBatch : StoreRecords(p, f)
    \/ RunAfterFetch
    \/ \E ok \in BOOLEAN : GenerateReadme(ok)
    \/ \E ok \in BOOLEAN : CreateVersion(ok)
    \/ RunEnd
    \/ Signal
    \/ sched.phase = "loop" /\ Tick

SpecScheduler == Init /\ [][NextScheduler]_vars

-----------------------------------------------------------------------------
(* fetch_incremental and fetch_full(D + 1) side by side: the two calls are
   made on the same store, on the same day, against a remote that behaves
   the same way both times.  `earlier` holds the remote, the store the calls
   start from and, once the first call is over, what it returned and the
   store it left. *)

\* A remote and a disk that behave the same way each time: the number of
\* requests that fail before one succeeds, the body of the response and the
\* storage failure the write meets
Remotes ==
    {r \in [fails : 0..MAX_RETRIES, payload : RemotePayloads, f : 0..MaxBatch] :
        r.f \in Failures(ParseApiData(r.payload))}

\* The store has a latest date D with D + 1 < today: the comparison starts
PairSetup(rem) ==
    /\ pc = "idle" /\ earlier = None
    /\ GetLatestDate(rows) # None
    /\ GetLatestDate(rows)[1] + 1 < today
    /\ earlier' = Some([stage |-> "first", remote |-> rem, rows0 |-> rows,
                        rows1 |-> {}, first |-> NoResult])
    /\ UNCHANGED <<rows, today, pc, op, pre, payload, batch, result, url, attempt,
                   nreq, sleeps, calls, ninsert, todo, total, errors, npolite, nfail,
                   exhausted, wfail, sched, stopreq>>

InPair(stage) == earlier # None /\ earlier[1].stage = stage

\* The first call: fetch_incremental()
PairIncremental ==
    /\ InPair("first")
    /\ StartIncremental(DEFAULT_DAYS_BACK)

\* The second call, on the store the first one started from:
\* fetch_full(D + 1)
PairFull ==
    /\ InPair("first") /\ pc = "done"
    /\ earlier' = Some([earlier[1] EXCEPT !.stage = "second", !.first = result,
                                          !.rows1 = rows])
    /\ rows' = earlier[1].rows0
    /\ op' = [kind |-> "fetch_full", start |-> GetLatestDate(earlier[1].rows0)[1] + 1]
    /\ EnterFetch(GetLatestDate(earlier[1].rows0)[1] + 1)
    /\ pre' = {} /\ payload' = NoPayload /\ batch' = <<>> /\ result' = NoResult
    /\ ninsert' = 0 /\ wfail' = 0 /\ exhausted' = {}
    /\ UNCHANGED <<today, todo, total, errors, npolite, sched, stopreq>>

NextPair ==
    \/ earlier = None /\ \E d \in Days : StartFull(d)
    \/ earlier = None /\ RequestSucceeds
    \/ earlier = None /\ \E p \in RemotePayloads : StoreRecords(p, 0)
    \/ earlier = None /\ Return
    \/ earlier = None /\ Tick
    \/ \E rem \in Remotes : PairSetup(rem)
    \/ PairIncremental
    \/ earlier # None /\ nfail < earlier[1].remote.fails /\ RequestFails
    \/ earlier # None /\ nfail = earlier[1].remote.fails /\ RequestSucceeds
    \/ earlier # None /\ StoreRecords(earlier[1].remote.payload, earlier[1].remote.f)
    \/ PairFull

SpecPair == Init /\ [][NextPair]_vars

-----------------------------------------------------------------------------
(* fetch_incremental called again and again on the same day.  Once a call
   is over, `earlier` keeps what it requested, parsed and returned, and the
   next call is made with the same days_back. *)

\* The caller is done with a fetch_incremental call and is about to make
\* the next one
CallOver ==
    /\ pc = "done" /\ op.kind = "fetch_incremental"
    /\ earlier' = Some([stage |-> "again", days_back |-> op.days_back,
                        calls |-> calls, batch |-> batch, first |-> result,
                        rows1 |-> rows])
    /\ ResetCall
    /\ UNCHANGED sched

\* The next fetch_incremental of the same caller
CallAgain ==
    /\ earlier # None
    /\ StartIncremental(earlier[1].days_back)

NextConverge ==
    \/ earlier = None /\ \E d \in Days : StartFull(d)
    \/ earlier = None /\ \E n \in Lookbacks : StartIncremental(n)
    \/ earlier = None /\ op.kind = "fetch_full" /\ Return
    \/ earlier = None /\ Tick
    \/ RequestFails
    \/ RequestSucceeds
    \/ \E p \in RemotePayloads : StoreRecords(p, 0)
    \/ CallOver
    \/ CallAgain

SpecConverge == Init /\ [][NextConverge]_vars

-----------------------------------------------------------------------------
(* The validation pipeline on its own: _parse_api_data applied to every
   payload built from boundary timestamps and values *)

\* None, the epoch itself, noon of day 1 and midnight of day 2
PipelineTicks == {None, Some(0), Some(TicksPerDay + 1), Some(2 * TicksPerDay)}

\* None, -0.5, 0, 0.5, 25, 100, 100.5 and 150, in halves
PipelineValues ==
    {None, Some(-1), Some(0), Some(1), Some(50), Some(200), Some(201), Some(300)}

PipelineItems == {[x |-> t, y |-> v] : t \in PipelineTicks, v \in PipelineValues}

PipelinePayloads ==
    {[shape |-> s] : s \in {"empty", "no_series", "no_list"}}
        \cup {DataPayload(items) : items \in SeqsUpTo(PipelineItems, MaxBatch)}

InitPipeline ==
    /\ rows = InitDb({})
    /\ today = 1
    /\ pc = "raw" /\ op = [kind |-> "_parse_api_data"] /\ pre = {}
    /\ payload \in PipelinePayloads
    /\ batch = <<>> /\ result = NoResult /\ url = <<>>
    /\ attempt = 0 /\ nreq = 0 /\ sleeps = <<>> /\ calls = <<>> /\ ninsert = 0
    /\ todo = <<>> /\ total = 0 /\ errors = <<>> /\ npolite = 0
    /\ nfail = 0 /\ exhausted = {} /\ wfail = 0
    /\ sched = NoScheduler /\ stopreq = FALSE /\ earlier = None

\* records = self._parse_api_data(api_data)
PipelineParse ==
    /\ pc = "raw"
    /\ batch' = ParseApiData(payload)
    /\ pc' = "parsed"
    /\ UNCHANGED <<rows, today, op, pre, payload, result, url, attempt, nreq, sleeps,
                   calls, ninsert, todo, total, errors, npolite, nfail, exhausted,
                   wfail,
                   harness>>

NextPipeline == PipelineParse

SpecPipeline == InitPipeline /\ [][NextPipeline]_vars

-----------------------------------------------------------------------------
(* The statistics of a populated store: get_stats applied to stores of up to
   one row more than the short trailing window *)

StatsDays == Avg7dLimit + 1

\* Stored values: the no-data value 0, 10 and 60
StatsValues == {0, 10, 60}

\* One row for each of the first n days
StatsStores ==
    UNION {{{FngRecord(d, f[d]) : d \in 1..n} : f \in [1..n -> StatsValues]} :
              n \in 0..StatsDays}

InitStats ==
    /\ rows \in StatsStores
    /\ today = StatsDays + 1
    /\ pc = "idle" /\ op = NoOp /\ pre = {} /\ payload = NoPayload
    /\ batch = <<>> /\ result = NoResult /\ url = <<>>
    /\ attempt = 0 /\ nreq = 0 /\ sleeps = <<>> /\ calls = <<>> /\ ninsert = 0
    /\ todo = <<>> /\ total = 0 /\ errors = <<>> /\ npolite = 0
    /\ nfail = 0 /\ exhausted = {} /\ wfail = 0
    /\ sched = NoScheduler /\ stopreq = FALSE /\ earlier = None

NextStats == ReadStats

SpecStats == InitStats /\ [][NextStats]_vars

-----------------------------------------------------------------------------
(* The level of an index value: get_level_info of src/src/config.py and
   get_rating of src/export_fng_data.py *)

\* FNG_LEVELS: (low, high) -> English name, in the order of the dict
FNG_LEVELS ==
    <<[low |-> 0, high |-> 25, name |-> "Extreme Fear"],
      [low |-> 25, high |-> 45, name |-> "Fear"],
      [low |-> 45, high |-> 55, name |-> "Neutral"],
      [low |-> 55, high |-> 75, name |-> "Greed"],
      [low |-> 75, high |-> 100, name |-> "Extreme Greed"]>>

\* The band takes its upper bound and leaves out its lower bound
InBandUpperInclusive(v, low, high) == low < v /\ v <= high

\* low <= value < high
InBand(v, low, high) == low <= v /\ v < high

\* get_level_info(value): the first level whose band holds the value, and
\* FNG_LEVELS[(75, 100)] when no band does
GetLevelInfo(v) ==
    LET hits == {i \in DOMAIN FNG_LEVELS :
                    InBand(v, FNG_LEVELS[i].low, FNG_LEVELS[i].high)}
    IN IF hits # {} THEN FNG_LEVELS[MinOf(hits)].name
       ELSE FNG_LEVELS[Len(FNG_LEVELS)].name

\* get_rating(value)
GetRating(v) ==
    IF v < 25 THEN "Extreme Fear"
    ELSE IF v < 45 THEN "Fear"
    ELSE IF v < 55 THEN "Neutral"
    ELSE IF v < 75 THEN "Greed"
    ELSE "Extreme Greed"

\* The index values: the integers of [0,100]
LevelValues == 0..100

\* level = get_level_info(value)
ClassifyLevel(v) ==
    /\ pc = "idle"
    /\ op' = [kind |-> "get_level_info", value |-> v]
    /\ result' = [kind |-> "level", name |-> GetLevelInfo(v)]
    /\ pc' = "done"
    /\ UNCHANGED <<rows, today, pre, payload, batch, url, attempt, nreq, sleeps,
                   calls, ninsert, todo, total, errors, npolite, nfail, exhausted,
                   wfail,
                   harness>>

\* rating = get_rating(value)
ClassifyRating(v) ==
    /\ pc = "idle"
    /\ op' = [kind |-> "get_rating", value |-> v]
    /\ result' = [kind |-> "level", name |-> GetRating(v)]
    /\ pc' = "done"
    /\ UNCHANGED <<rows, today, pre, payload, batch, url, attempt, nreq, sleeps,
                   calls, ninsert, todo, total, errors, npolite, nfail, exhausted,
                   wfail,
                   harness>>

NextLevels ==
    \/ \E v \in LevelValues : ClassifyLevel(v)
    \/ \E v \in LevelValues : ClassifyRating(v)
    \/ Return

SpecLevels == Init /\ [][NextLevels]_vars

-----------------------------------------------------------------------------
(* get_distribution of src/src/database.py, on stores that fetch_full has
   filled from responses of one observation whose value is at, next to or
   between the ends of the bands *)

\* Raw values of the remote, in halves: the ends of the bands and their
\* neighbours, 24.5, and 100.5 and 101 which the parse rejects
BandRawValues ==
    {v * HalvesPerUnit : v \in {0, 1, 24, 25, 44, 45, 54, 55, 74, 75, 100, 101}}
        \cup {24 * HalvesPerUnit + 1, 100 * HalvesPerUnit + 1}

BandPayloads ==
    {DataPayload(<<[x |-> Some(t), y |-> Some(v)]>>) :
        t \in RemoteTicks, v \in BandRawValues}

\* dist = db.get_distribution()
ReadDistribution ==
    /\ pc = "idle"
    /\ op' = [kind |-> "get_distribution"]
    /\ result' = [kind |-> "distribution", counts |-> GetDistribution(rows)]
    /\ pc' = "done"
    /\ UNCHANGED <<rows, today, pre, payload, batch, url, attempt, nreq, sleeps,
                   calls, ninsert, todo, total, errors, npolite, nfail, exhausted,
                   wfail,
                   harness>>

NextDistribution ==
    \/ \E d \in Days : StartFull(d)
    \/ RequestSucceeds
    \/ \E p \in BandPayloads : StoreRecords(p, 0)
    \/ ReadDistribution
    \/ Return

SpecDistribution == Init /\ [][NextDistribution]_vars

-----------------------------------------------------------------------------
(* Properties *)

\* A caller's insert_records call has returned or raised
StoreCallOver == pc \in {"called", "recalled"}

\* C1 (upsert idempotence): when insert_records is called a second time with
\* the batch it was just called with, and both calls succeed, the content of
\* the store after the second call is the content after the first.
C1_UpsertIdempotent ==
    (pc = "recalled" /\ result.kind = "returned") => rows = pre

\* A second application of a batch that changed the store the first time it
\* was applied, with a date written twice in it
C1_Witness ==
    /\ pc = "recalled" /\ result.kind = "returned"
    /\ Len(batch) = 2 /\ batch[1].date = batch[2].date /\ batch[1].value # batch[2].value
    /\ \E r \in rows : r.date # batch[1].date

\* C5 (write path rejects out-of-range values): after insert_records was
\* called by any caller, no row with a value outside [0,100] is in the store.
C5_StoreRejectsOutOfRange ==
    StoreCallOver => \A r \in rows : 0 <= r.value /\ r.value <= 100

\* C6 (unique date key): in every reachable store state there is at most one
\* row per date, also after batches that name a date more than once.
C6_UniqueDateKey ==
    \A r, q \in rows : r.date = q.date => r = q

\* A successful batch naming one date twice with different values, on a
\* store that already held a row for that date
C6_Witness ==
    /\ pc = "called" /\ result.kind = "returned"
    /\ Len(batch) = 2 /\ batch[1].date = batch[2].date /\ batch[1].value # batch[2].value
    /\ \E r \in pre : r.date = batch[1].date /\ r.value # batch[2].value

\* C10 (upsert atomicity): when a storage failure occurs part-way through an
\* insert_records batch, the store content is what it was before the call
\* and the caller gets the failure, not a count.
C10_UpsertAtomic ==
    (StoreCallOver /\ result.kind = "raised") =>
        /\ rows = pre
        /\ "count" \notin DOMAIN result
        /\ result.error = "sqlite3.Error"

\* The failure came after a record that changes the store had been applied
C10_Witness ==
    /\ pc = "called" /\ result.kind = "raised"
    /\ result.applied >= 1
    /\ ExecuteMany(pre, SubSeq(batch, 1, result.applied)) # pre

\* The latest date of the store, when fetch_incremental is about to be called
LatestIs(D) == GetLatestDate(rows) = Some(D)

\* C2 (incremental correctness): a fetch_incremental call made when the
\* store's latest date is D requests start date D+1, and nothing else, if
\* D+1 < today; if D+1 >= today it returns (0, already current) at once,
\* having made no fetch call and no change to the store.
C2_IncrementalCorrect ==
    [][\A D \in Days :
        (pc = "idle" /\ op'.kind = "fetch_incremental" /\ LatestIs(D)) =>
            IF D + 1 >= today
            THEN /\ pc' = "done"
                 /\ result' = Returned(0, "already_current")
                 /\ calls' = <<>> /\ nreq' = 0
                 /\ rows' = rows
            ELSE /\ pc' = "request"
                 /\ url' = Some(D + 1)
                 /\ calls' = <<D + 1>>
                 /\ rows' = rows]_vars

\* fetch_incremental is requesting the day after a latest date that lies
\* two days back
C2_Witness ==
    /\ pc = "request" /\ op.kind = "fetch_incremental"
    /\ \E D \in Days : LatestIs(D) /\ D + 1 < today /\ url = Some(D + 1)

InGenuineRange(v) == 0 < v /\ v <= 100

\* Every row of date d is a genuine observation
DateIsGenuine(t, d) == \A r \in t : r.date = d => InGenuineRange(r.value)

\* C3 (range invariant): after any sequence of incremental, full, backfill
\* and CSV-import calls, every observation returned or counted by a read
\* path of the store has 0 < value <= 100, and no row with value 0 is
\* exposed by any of them.
C3_RangeInvariant ==
    /\ \A i \in DOMAIN GetAllRecords(rows) : InGenuineRange(GetAllRecords(rows)[i].value)
    /\ \A s, e \in Days : \A i \in DOMAIN GetRecordsByRange(rows, s, e) :
            InGenuineRange(GetRecordsByRange(rows, s, e)[i].value)
    /\ GetLatestDate(rows) # None => DateIsGenuine(rows, GetLatestDate(rows)[1])
    /\ GetEarliestDate(rows) # None => DateIsGenuine(rows, GetEarliestDate(rows)[1])
    /\ RecordCount(rows) = Cardinality({r \in rows : InGenuineRange(r.value)})
    /\ \A st \in GetStats(rows) :
        /\ st.total_records = Cardinality({r \in rows : InGenuineRange(r.value)})
        /\ st.min_value # None => InGenuineRange(st.min_value[1])
        /\ st.max_value # None => InGenuineRange(st.max_value[1])
        /\ st.latest_value # None => InGenuineRange(st.latest_value[1])
        /\ st.latest_date # None => DateIsGenuine(rows, st.latest_date[1])
        /\ st.min_date # None => DateIsGenuine(rows, st.min_date[1])
        /\ st.max_date # None => DateIsGenuine(rows, st.max_date[1])
    /\ \A i \in DOMAIN DistributionRanges :
            \A r \in RangeRows(rows, DistributionRanges[i]) : InGenuineRange(r.value)

\* A raw observation with a usable timestamp
HasGoodTick(item) == item.x # None /\ item.x # Some(0)

\* C4 (validation filter): of raw observations with values 150, 0, 25 and
\* 100, those with 150 and with 0 are discarded and those with 25 and with
\* 100 are accepted into the batch.
C4_ValidationFilter ==
    (/\ pc = "parsed" /\ payload.shape = "data"
     /\ \A i \in DOMAIN payload.data :
            /\ HasGoodTick(payload.data[i])
            /\ payload.data[i].y \in {Some(300), Some(0), Some(50), Some(200)})
    =>
        /\ Len(batch) =
               Cardinality({i \in DOMAIN payload.data :
                                payload.data[i].y \in {Some(50), Some(200)}})
        /\ \A i \in DOMAIN batch : batch[i].value \in {25, 100}

\* _fetch_from_api has just returned a response
FetchReturned == pc = "fetched"

\* C7 (retry success path): a fetch that fails k < MAX_RETRIES times and then
\* succeeds has made exactly k+1 requests and slept RETRY_DELAY*1, ...,
\* RETRY_DELAY*k between them, each wait longer than the one before.
C7_RetrySuccess ==
    FetchReturned =>
        /\ nfail < MAX_RETRIES
        /\ nreq = nfail + 1
        /\ Len(sleeps) = nfail
        /\ \A i \in 1..nfail : sleeps[i] = RETRY_DELAY * i
        /\ \A i, j \in 1..nfail : i < j => sleeps[i] < sleeps[j]

\* Two failures, then success on the third request
C7_Witness == FetchReturned /\ nfail = 2 /\ nreq = 3

\* _fetch_from_api has just raised: to the caller of fetch_incremental or
\* fetch_full, or into the except clause of the backfill loop
FetchRaised ==
    \/ pc = "done" /\ result = Raised("RuntimeError")
    \/ pc = "paced" /\ payload = NoPayload

\* fetch_incremental or fetch_full is over after an empty successful response
EmptyResponse ==
    /\ pc = "done" /\ op.kind \in {"fetch_incremental", "fetch_full"}
    /\ payload # NoPayload /\ ParseApiData(payload) = <<>>

\* C8 (retry exhaustion): when every attempt fails, _fetch_from_api makes
\* exactly MAX_RETRIES requests, sleeps between them but not after the last,
\* and raises; an empty successful response raises nothing and gives a
\* result with count 0.
C8_RetryExhaustion ==
    /\ nreq <= MAX_RETRIES
    /\ (nfail = MAX_RETRIES) = FetchRaised
    /\ FetchRaised =>
        /\ nreq = MAX_RETRIES
        /\ Len(sleeps) = MAX_RETRIES - 1
        /\ url # None /\ url[1] \in exhausted
    /\ EmptyResponse =>
        /\ result.kind = "returned" /\ result.count = 0
        /\ exhausted = {}

\* A fetch_full call that ended by the terminal error
C8_Witness ==
    /\ pc = "done" /\ op.kind = "fetch_full" /\ result = Raised("RuntimeError")
    /\ nreq = MAX_RETRIES

\* fetch_missing_data has returned from a call with dates to fetch
BackfillOver == pc = "done" /\ op.kind = "fetch_missing_data" /\ op.dates # {}

\* Exactly one date's fetch exhausted its retries and no write failed
OneDateFailed ==
    /\ BackfillOver
    /\ Cardinality(exhausted) = 1
    /\ \A i \in DOMAIN errors : errors[i].error = "RuntimeError"

\* The backfill loop is done with a date whose fetch returned a response
DateFetched == pc = "paced" /\ payload # NoPayload

-----------------------------------------------------------------------------
(* Storage failures inside a synchronize call *)

SyncKinds == {"fetch_incremental", "fetch_full"}

\* Error-list entries made by a failed write
WriteErrors == {i \in DOMAIN errors : errors[i].error = "sqlite3.Error"}

\* C11 as stated (store write failure propagates): a storage failure during
\* the upsert of fetch_incremental, of fetch_full or of a backfill date makes
\* the call fail; the call never ends with a normal result.
C11_WriteFailurePropagates ==
    (pc = "done" /\ op.kind \in SyncKinds \cup {"fetch_missing_data"} /\ wfail > 0)
        => result.kind = "raised"

\* C11 as amended: a storage failure during the upsert of fetch_incremental
\* or fetch_full reaches the caller as the failure of the call, never as a
\* count; during a backfill date it is caught, entered in the error list
\* under that date, and the call goes on and ends with its normal total and
\* status, which counts the date as failed.  The failed batch leaves the
\* store as it was.
C11_WriteFailureSurfaces ==
    /\ (pc = "done" /\ op.kind \in SyncKinds /\ wfail > 0) =>
            /\ result = Raised("sqlite3.Error")
            /\ "count" \notin DOMAIN result
            /\ rows = pre
    /\ (pc = "done" /\ op.kind \in SyncKinds /\ result.kind = "returned") => wfail = 0
    /\ op.kind = "fetch_missing_data" =>
            /\ Cardinality(WriteErrors) = wfail
            /\ \A i \in WriteErrors : errors[i].date \in op.dates
            /\ (pc = "paced" /\ payload # NoPayload /\ errors # <<>>
                    /\ errors[Len(errors)] = [date |-> Head(todo), error |-> "sqlite3.Error"])
                    => rows = pre
            /\ (pc = "done" /\ wfail > 0) =>
                    /\ result = BackfillResult(total, errors)
                    /\ result.failed >= wfail
                    /\ calls = SortedSeq(op.dates)

\* A backfill of two dates: the write of the first date failed, the second
\* date was written, and the call returned
C11_Witness ==
    /\ pc = "done" /\ op.kind = "fetch_missing_data"
    /\ wfail = 1 /\ Len(errors) = 1 /\ errors[1].date = calls[1]
    /\ Len(calls) = 2 /\ total > 0
    /\ result.kind = "returned"

-----------------------------------------------------------------------------
(* The write step of fetch_incremental and fetch_full *)

\* fetch_incremental or fetch_full is over, and its fetch had returned a
\* response (it was neither short-circuited nor out of retries)
SyncFetched == pc = "done" /\ op.kind \in SyncKinds /\ payload # NoPayload

\* C12 as stated (single batch upsert): every fetch_incremental or fetch_full
\* call that is not short-circuited and whose fetch succeeds calls
\* insert_records exactly once, with all records that survived validation.
C12_ExactlyOneUpsert ==
    SyncFetched =>
        /\ ninsert = 1
        /\ batch = ParseApiData(payload)

\* C12 as amended: such a call calls insert_records exactly once, with all
\* surviving records in one batch, when at least one record survives, and
\* not at all when none survives; a call that was short-circuited or whose
\* fetch failed does not call it.
C12_AtMostOneUpsert ==
    /\ op.kind \in SyncKinds => ninsert <= 1
    /\ SyncFetched =>
        /\ batch = ParseApiData(payload)
        /\ ninsert = (IF batch = <<>> THEN 0 ELSE 1)
        /\ batch = <<>> => rows = pre /\ result = Returned(0, "no_data")
        /\ (batch # <<>> /\ result.kind = "returned") =>
                /\ rows = ExecuteMany(pre, batch)
                /\ result.count = Len(batch)
    /\ (pc = "done" /\ op.kind \in SyncKinds /\ payload = NoPayload) => ninsert = 0

\* A fetch_incremental call wrote a batch of two records in its one write
C12_Witness ==
    /\ SyncFetched /\ op.kind = "fetch_incremental"
    /\ Len(batch) = 2 /\ batch[1].date # batch[2].date
    /\ ninsert = 1 /\ result.kind = "returned" /\ rows # pre

\* The response is None or {}, has no fear_and_greed_historical, or its
\* series has no "data" list
Malformed(p) == p.shape \in {"empty", "no_series", "no_list"}

\* C13 (malformed response is not an error): when the response is empty,
\* lacks the historical series or lacks the nested data list, the parse
\* gives no record and raises nothing, fetch_incremental and fetch_full
\* return count 0, and the store is unchanged; a backfill date answered so
\* writes nothing and is not entered in the error list.
C13_MalformedIsNoData ==
    /\ (SyncFetched /\ Malformed(payload)) =>
        /\ batch = <<>>
        /\ result.kind = "returned" /\ result.count = 0
        /\ rows = pre /\ ninsert = 0 /\ wfail = 0
    /\ (DateFetched /\ Malformed(payload)) =>
        /\ batch = <<>>
        /\ rows = pre
        /\ \A i \in DOMAIN errors : errors[i].date # Head(todo)

\* fetch_incremental got a response without the data list, on a store that
\* holds a row
C13_Witness ==
    /\ SyncFetched /\ op.kind = "fetch_incremental"
    /\ payload.shape = "no_list"
    /\ rows # {} /\ result.kind = "returned"

\* A raw observation with its timestamp, its value, and the value in [0,100]
ItemValid(item) ==
    /\ item.x # None /\ item.y # None
    /\ 0 <= item.y[1] /\ item.y[1] <= 100 * HalvesPerUnit

\* rec is the record of the raw observation item: the day its timestamp
\* falls in and the integer part of its value
RecordOf(item, rec) ==
    /\ rec.date * TicksPerDay <= item.x[1] /\ item.x[1] < (rec.date + 1) * TicksPerDay
    /\ rec.value * HalvesPerUnit <= item.y[1]
    /\ item.y[1] < (rec.value + 1) * HalvesPerUnit

\* A response with a data list has been parsed, in any of the three calls
ListFetched == pc \in {"done", "paced"} /\ payload # NoPayload /\ payload.shape = "data"

\* C14 (validation rejection never aborts the batch): for a response mixing
\* valid observations with observations that lack the timestamp, lack the
\* value or have a value outside [0,100], the batch is exactly the records of
\* the valid observations, in their order; nothing is raised for the
\* rejected ones, and unless the storage fails the batch is what is written.
C14_RejectionKeepsBatch ==
    ListFetched =>
        LET kept == SelectSeq(payload.data, ItemValid) IN
        /\ Len(batch) = Len(kept)
        /\ \A i \in DOMAIN batch : RecordOf(kept[i], batch[i])
        /\ wfail = 0 =>
            /\ rows = ExecuteMany(pre, batch)
            /\ op.kind \in SyncKinds =>
                    result.kind = "returned" /\ result.count = Len(kept)
            /\ op.kind = "fetch_missing_data" =>
                    \A i \in DOMAIN errors : errors[i].date # Head(todo)

\* fetch_full got an observation without its value followed by a valid one,
\* and wrote the valid one
C14_Witness ==
    /\ ListFetched /\ op.kind = "fetch_full"
    /\ Len(payload.data) = 2
    /\ ~ItemValid(payload.data[1]) /\ ItemValid(payload.data[2])
    /\ Len(batch) = 1 /\ batch[1] \in rows /\ batch[1] \notin pre
    /\ result.kind = "returned"

-----------------------------------------------------------------------------
(* Summary statistics *)

\* The n rows of latest date among the rows with value > 0, or all of them
\* when there are fewer
RecentRows(t, n) ==
    {r \in t : r.value > 0
                /\ Cardinality({q \in t : q.value > 0 /\ q.date > r.date}) < n}

\* C15 (trailing means): avg_7d, resp. avg_30d, of get_stats is the mean of
\* the values of the 7, resp. 30, most recent rows with value > 0 (of all of
\* them when fewer exist), and not the mean over the whole store when the
\* store holds more rows.
C15_TrailingMeans ==
    (pc = "done" /\ op.kind = "get_stats") =>
        /\ result.stats.avg_7d = AvgRounded(RecentRows(rows, Avg7dLimit))
        /\ result.stats.avg_30d = AvgRounded(RecentRows(rows, Avg30dLimit))

\* The five bands [0,25), [25,45), [45,55), [55,75) and [75,100]
Bands ==
    {[name |-> "Extreme Fear", from |-> 0, to |-> 24],
     [name |-> "Fear", from |-> 25, to |-> 44],
     [name |-> "Neutral", from |-> 45, to |-> 54],
     [name |-> "Greed", from |-> 55, to |-> 74],
     [name |-> "Extreme Greed", from |-> 75, to |-> 100]}

\* get_level_info or get_rating has answered
Classified == pc = "done" /\ op.kind \in {"get_level_info", "get_rating"}

\* C16 (category boundaries): get_level_info and get_rating map 24 to
\* Extreme Fear, 25 and 44 to Fear, 45 to Neutral, 74 to Greed, and 75 and
\* 100 to Extreme Greed; every integer of [0,100] lies in exactly one of the
\* five bands, and that band is the answer.
C16_CategoryBoundaries ==
    Classified =>
        /\ op.value = 24 => result.name = "Extreme Fear"
        /\ op.value \in {25, 44} => result.name = "Fear"
        /\ op.value = 45 => result.name = "Neutral"
        /\ op.value = 74 => result.name = "Greed"
        /\ op.value \in {75, 100} => result.name = "Extreme Greed"
        /\ Cardinality({b \in Bands : b.from <= op.value /\ op.value <= b.to}) = 1
        /\ \A b \in Bands :
                (b.from <= op.value /\ op.value <= b.to) => result.name = b.name

\* get_level_info was asked for 100, which no (low, high) pair of FNG_LEVELS
\* holds
C16_Witness ==
    /\ Classified /\ op.kind = "get_level_info" /\ op.value = 100
    /\ \A i \in DOMAIN FNG_LEVELS : ~(FNG_LEVELS[i].low <= 100 /\ 100 < FNG_LEVELS[i].high)
    /\ result.name = "Extreme Greed"

-----------------------------------------------------------------------------
(* End to end *)

\* The remote's observation of value v (in units) at noon of day d
Observation(d, v) == [x |-> Some(d * TicksPerDay + 1), y |-> Some(v * HalvesPerUnit)]

\* fetch_full has returned, on a store that was empty, after the remote
\* answered with the observations 10 on day d1 and 60 on day d2
FullOfTwo(d1, d2) ==
    /\ pc = "done" /\ op.kind = "fetch_full" /\ result.kind = "returned"
    /\ pre = {}
    /\ payload = DataPayload(<<Observation(d1, 10), Observation(d2, 60)>>)

\* C17 (end to end): from an empty store, when the remote returns two
\* observations dated d1 < d2 with values 10 and 60, after fetch_full
\* get_all_records returns exactly these two records in ascending date order
\* and get_stats reports min_value 10 with min_date d1 and max_value 60 with
\* max_date d2.
C17_EndToEnd ==
    \A d1, d2 \in Days :
        (d1 < d2 /\ FullOfTwo(d1, d2)) =>
            /\ GetAllRecords(rows) = <<FngRecord(d1, 10), FngRecord(d2, 60)>>
            /\ \A st \in GetStats(rows) :
                /\ st.min_value = Some(10) /\ st.min_date = Some(d1)
                /\ st.max_value = Some(60) /\ st.max_date = Some(d2)
                /\ st.total_records = 2

\* fetch_full("day 1") has stored the two observations
C17_Witness ==
    /\ FullOfTwo(1, 2)
    /\ op.start = 1
    /\ result.count = 2
    /\ rows = {FngRecord(1, 10), FngRecord(2, 60)}

-----------------------------------------------------------------------------
(* Read paths of the store *)

\* d is the latest date among the rows of t with value > 0
IsLatest(t, d) ==
    /\ \E r \in t : r.date = d /\ r.value > 0
    /\ \A r \in t : r.value > 0 => r.date <= d

\* d is the earliest date among the rows of t with value > 0
IsEarliest(t, d) ==
    /\ \E r \in t : r.date = d /\ r.value > 0
    /\ \A r \in t : r.value > 0 => d <= r.date

\* C18 (latest_date and earliest_date): in every store state
\* get_latest_date returns the greatest, and get_earliest_date the least,
\* date among the rows with value > 0, and both return None exactly when no
\* row has value > 0; a row with value 0 is never the answer.
C18_LatestEarliest ==
    /\ (GetLatestDate(rows) = None) = (\A r \in rows : ~(r.value > 0))
    /\ (GetEarliestDate(rows) = None) = (\A r \in rows : ~(r.value > 0))
    /\ GetLatestDate(rows) # None => IsLatest(rows, GetLatestDate(rows)[1])
    /\ GetEarliestDate(rows) # None => IsEarliest(rows, GetEarliestDate(rows)[1])

\* The row of the greatest date has value 0, and the latest date is the
\* date before it
C18_Witness ==
    /\ StoreCallOver
    /\ \E r, q \in rows : r.date < q.date /\ r.value > 0 /\ q.value = 0
    /\ GetLatestDate(rows) = Some(1) /\ GetEarliestDate(rows) = Some(1)

\* s is strictly ascending by date
AscendingByDate(s) == \A i, j \in DOMAIN s : i < j => s[i].date < s[j].date

\* The rows in the list s
Elements(s) == {s[i] : i \in DOMAIN s}

\* Arguments of get_records_by_range: the days and the days around them
RangeEnds == 0..(MaxDay + 1)

\* C20 (range and full queries): get_records_by_range(start, end) returns
\* exactly the rows with start <= date <= end and value > 0, get_all_records
\* exactly the rows with value > 0, both strictly ascending by date and
\* without duplicates.
C20_RangeAndFullQueries ==
    /\ Elements(GetAllRecords(rows)) = {r \in rows : r.value > 0}
    /\ AscendingByDate(GetAllRecords(rows))
    /\ Len(GetAllRecords(rows)) = Cardinality({r \in rows : r.value > 0})
    /\ \A s, e \in RangeEnds :
        LET q == GetRecordsByRange(rows, s, e) IN
        /\ Elements(q) = {r \in rows : s <= r.date /\ r.date <= e /\ r.value > 0}
        /\ AscendingByDate(q)
        /\ Len(q) = Cardinality(Elements(q))

\* Two rows with value > 0 were written latest date first; the range from
\* the second day to the second day holds one of them
C20_Witness ==
    /\ pc = "called" /\ result.kind = "returned"
    /\ Len(batch) = 2 /\ batch[1].date > batch[2].date
    /\ batch[1].value > 0 /\ batch[2].value > 0
    /\ GetAllRecords(rows) = <<batch[2], batch[1]>>
    /\ GetRecordsByRange(rows, 2, 2) = <<batch[1]>>

-----------------------------------------------------------------------------
(* fetch_incremental on a store without observations *)

\* No row of the store has value > 0
NoObservation == \A r \in rows : ~(r.value > 0)

\* C19 (empty-store incremental): when the store has no row with value > 0,
\* fetch_incremental requests data from the start date today minus the
\* lookback days (30 by default), and for a lookback of at least one day it
\* does fetch: it never returns "already current" at once.
C19_EmptyStoreIncremental ==
    /\ (pc = "request" /\ op.kind = "fetch_incremental" /\ NoObservation) =>
            /\ op.days_back >= 1
            /\ url = Some(today - op.days_back)
            /\ calls = <<today - op.days_back>>
    /\ (pc = "done" /\ op.kind = "fetch_incremental"
            /\ result = Returned(0, "already_current")) => ~NoObservation

\* fetch_incremental with the default lookback is requesting, on a store
\* whose only rows have value 0
C19_Witness ==
    /\ pc = "request" /\ op.kind = "fetch_incremental"
    /\ op.days_back = DEFAULT_DAYS_BACK
    /\ rows # {} /\ NoObservation
    /\ url = Some(today - DEFAULT_DAYS_BACK)

-----------------------------------------------------------------------------
(* Gap analysis *)

\* Day 2, the third of January 1970, was a Saturday
IsSaturday(d) == (d - 2) % 7 = 0

IsSunday(d) == (d - 3) % 7 = 0

\* The calendar dates of [today - N, today] without a row of value > 0
MissingIn(t, now, N) ==
    {d \in (now - N)..now : ~\E r \in t : r.date = d /\ r.value > 0}

\* analyze_missing_dates has returned
Analyzed == pc = "done" /\ op.kind = "analyze_missing_dates"

\* C21 (gap analysis): for a trailing window of N days analyze_missing_dates
\* returns exactly the calendar dates of [today - N, today] that have no row
\* with value > 0; weekend_dates and weekday_dates are disjoint, their union
\* is all_missing, weekend_dates holds exactly the missing Saturdays and
\* Sundays, and total_missing = weekend_missing + weekday_missing.
C21_GapAnalysis ==
    Analyzed =>
        LET a == result.analysis
            missing == MissingIn(rows, today, op.days)
        IN
        /\ Elements(a.all_missing) = missing
        /\ Len(a.all_missing) = Cardinality(missing)
        /\ Elements(a.weekend_dates) \cap Elements(a.weekday_dates) = {}
        /\ Elements(a.weekend_dates) \cup Elements(a.weekday_dates) = missing
        /\ Elements(a.weekend_dates) = {d \in missing : IsSaturday(d) \/ IsSunday(d)}
        /\ a.total_missing = Cardinality(missing)
        /\ a.weekend_missing = Len(a.weekend_dates)
        /\ a.weekday_missing = Len(a.weekday_dates)
        /\ a.total_missing = a.weekend_missing + a.weekday_missing

\* A week's window on a store that holds the Friday and a value-0 row for
\* the Saturday: the Saturday is missing and a weekend date, and weekdays
\* are missing too
C21_Witness ==
    /\ Analyzed /\ op.days = MaxWindow
    /\ \E r \in rows : r.date = 1 /\ r.value > 0
    /\ \E r \in rows : r.date = 2 /\ r.value = 0
    /\ 2 \in Elements(result.analysis.weekend_dates)
    /\ 1 \notin Elements(result.analysis.all_missing)
    /\ result.analysis.weekday_missing > 0

-----------------------------------------------------------------------------
(* The backfill loop *)

\* fetch_missing_data is making the remote call of one of its dates
BackfillRequest == pc = "request" /\ op.kind = "fetch_missing_data"

\* The dates are taken in ascending order, one _fetch_from_api call each
BackfillOrdered ==
    op.kind = "fetch_missing_data" =>
        /\ Len(calls) <= Cardinality(op.dates)
        /\ calls = SubSeq(SortedSeq(op.dates), 1, Len(calls))
        /\ pc = "done" /\ op.dates # {} => calls = SortedSeq(op.dates)

\* C22 (backfill ordering and pacing): fetch_missing_data processes the
\* dates in ascending order with one _fetch_from_api call per date, and a
\* politeness delay has elapsed between every two consecutive per-date
\* calls, also when the earlier of the two failed.
C22_BackfillPacing ==
    /\ BackfillOrdered
    /\ BackfillRequest => npolite = Len(calls) - 1

\* fetch_missing_data is running or has just returned
InBackfill == op.kind = "fetch_missing_data"

\* The step is the insert_records call of one date, and it returned
DateStored ==
    /\ InBackfill /\ pc = "fetched"
    /\ batch' # <<>> /\ wfail' = wfail

\* C34 (running total of the backfill): the total fetch_missing_data returns
\* is the sum of the counts returned by the insert_records calls that
\* succeeded, a date that failed adding 0: the total starts at 0, each
\* successful write adds its count, which is the number of records of its
\* batch, no other step changes it, and it is what the call returns.
C34_BackfillTotal ==
    /\ []((InBackfill /\ Len(calls) = 1 /\ pc = "request") => total = 0)
    /\ []((InBackfill /\ pc = "done" /\ op.dates # {}) => result.count = total)
    /\ [][(InBackfill /\ pc # "done") =>
            total' = IF DateStored THEN total + Len(batch') ELSE total]_vars

\* Both dates of a backfill were answered with the same two records: the
\* total is 4 and the store holds two dates
C34_Witness ==
    /\ InBackfill /\ pc = "done"
    /\ errors = <<>> /\ ninsert = 2
    /\ result.count = 4
    /\ Cardinality({r.date : r \in rows}) = 2

-----------------------------------------------------------------------------
(* What the store keeps *)

\* The date keys present in the table t
DatesOf(t) == {r.date : r \in t}

\* C23 (the store never deletes): no step of fetch_incremental, fetch_full,
\* the backfill, the CSV import, get_stats or the opening of an existing
\* database removes a date key: the set of dates in the store only grows.
C23_NeverDeletes ==
    [][DatesOf(rows) \subseteq DatesOf(rows')]_vars

\* A write replaced the value of a date that was in the store, by 0, and
\* added another date
C23_Witness ==
    /\ pc = "done" /\ op.kind \in SyncKinds /\ result.kind = "returned"
    /\ \E r \in pre : r.value > 0 /\ FngRecord(r.date, 0) \in rows
    /\ DatesOf(rows) # DatesOf(pre)

\* get_stats has returned
StatsRead == pc = "done" /\ op.kind = "get_stats"

\* Everything get_stats reports but max_date is computed over the rows with
\* value > 0
StatsOverObservations ==
    StatsRead =>
        LET st == result.stats
            G == {r \in rows : r.value > 0}
        IN
        /\ st.total_records = Cardinality(G)
        /\ G = {} =>
            /\ st.min_value = None /\ st.max_value = None
            /\ st.latest_date = None /\ st.latest_value = None
            /\ st.min_date = None
        /\ G # {} =>
            /\ st.min_value = Some(MinOf({r.value : r \in G}))
            /\ st.max_value = Some(MaxOf({r.value : r \in G}))
            /\ st.latest_date = Some(MaxOf({r.date : r \in G}))
            /\ FngRecord(st.latest_date[1], st.latest_value[1]) \in G
            /\ FngRecord(st.min_date[1], st.min_value[1]) \in G

\* C24 (summary consistency): in every store state total_records,
\* min_value, max_value and the latest date and value of get_stats are
\* computed over the rows with value > 0; min_date, resp. max_date, is a date
\* whose stored value is > 0 and is min_value, resp. max_value; and without
\* a row of value > 0 latest_date, min_date and max_date are all None.
C24_SummaryConsistency ==
    /\ StatsOverObservations
    /\ StatsRead =>
        LET st == result.stats
            G == {r \in rows : r.value > 0}
        IN
        /\ G = {} => st.max_date = None
        /\ G # {} => FngRecord(st.max_date[1], st.max_value[1]) \in G

\* C26 (backfill cancellation): once a stop has been requested, the
\* backfill fetches no further date after the current date is done, and the
\* dates already processed stay in the store.
C26_BackfillCancellation ==
    [][(stopreq /\ op.kind = "fetch_missing_data" /\ pc # "done") =>
          /\ Len(calls') = Len(calls)
          /\ pc = "paced" => pc' = "done"
          /\ DatesOf(rows) \subseteq DatesOf(rows')]_vars

\* Whatever was requested, a backfill never removes a date it has stored
C26_ProcessedDatesRemain ==
    [][op.kind = "fetch_missing_data" => DatesOf(rows) \subseteq DatesOf(rows')]_vars

-----------------------------------------------------------------------------
(* What a synchronisation does to the latest date and to the count *)

\* A response has been parsed and handled by fetch_incremental, fetch_full
\* or one iteration of fetch_missing_data; pre is the store it found
Handled ==
    /\ op.kind \in {"fetch_incremental", "fetch_full", "fetch_missing_data"}
    /\ pc \in {"done", "paced"}
    /\ payload # NoPayload

\* get_latest_date of store b is not earlier than that of store a
LatestNotEarlier(a, b) ==
    GetLatestDate(a) = None
        \/ (GetLatestDate(b) # None /\ GetLatestDate(b)[1] >= GetLatestDate(a)[1])

\* C28 (latest date is monotone): whatever records that pass the validation
\* pipeline the remote sends, an incremental, full or backfill operation
\* never moves get_latest_date to an earlier date and never lowers
\* record_count.
C28_LatestDateMonotone ==
    Handled =>
        /\ LatestNotEarlier(pre, rows)
        /\ RecordCount(rows) >= RecordCount(pre)

\* As long as no stored record has the value 0, neither moves back
C28_MonotoneWithoutZero ==
    (Handled /\ \A i \in DOMAIN batch : batch[i].value > 0) =>
        /\ LatestNotEarlier(pre, rows)
        /\ RecordCount(rows) >= RecordCount(pre)

-----------------------------------------------------------------------------
(* The count fetch_incremental returns *)

\* fetch_incremental has returned after handling a response
IncrementalReturned ==
    /\ op.kind = "fetch_incremental" /\ pc = "done"
    /\ payload # NoPayload /\ result.kind = "returned"

\* The dates the call added to the store
NewDates == DatesOf(rows) \ DatesOf(pre)

\* C29 (count of fetch_incremental): the count returned is the number of
\* dates present after the call that were not present before it; a record
\* that only overwrites an existing date is not counted.
C29_CountIsNewDates ==
    IncrementalReturned => result.count = Cardinality(NewDates)

\* The count returned is the length of the list of parsed records
C29_CountIsBatchLength ==
    IncrementalReturned => result.count = Len(batch)

-----------------------------------------------------------------------------
(* The count insert_records returns *)

\* insert_records has returned a count to its caller
InsertReturned ==
    /\ op.kind = "insert_records" /\ pc \in {"called", "recalled"}
    /\ result.kind = "returned"

\* C30 (affected count of the upsert): insert_records returns 0 for an empty
\* batch and otherwise the number of records of the batch, inserts and
\* overwrites alike; applying the same batch again returns the same count
\* although no value changes.
C30_AffectedCount ==
    InsertReturned =>
        /\ batch = <<>> => result.count = 0
        /\ result.count = Len(batch)
        /\ pc = "recalled" => rows = pre

\* A batch of two records on two dates has been applied a second time: the
\* count is 2 again and the store is as the first application left it
C30_Witness ==
    /\ InsertReturned /\ pc = "recalled"
    /\ Len(batch) = 2 /\ batch[1].date # batch[2].date
    /\ result.count = 2
    /\ rows = pre

-----------------------------------------------------------------------------
(* fetch_incremental against fetch_full *)

\* Both calls of the comparison are over
PairDone == InPair("second") /\ pc = "done"

\* C27 (full equals incremental with an explicit start): on a store whose
\* latest date is D with D + 1 < today, fetch_incremental and
\* fetch_full(D + 1) against the same remote send the same request, leave
\* the same store and return the same count.
C27_FullEqualsIncremental ==
    PairDone =>
        LET first == earlier[1].first IN
        /\ Len(calls) = 2 /\ calls[1] = calls[2]
        /\ calls[2] = GetLatestDate(earlier[1].rows0)[1] + 1
        /\ rows = earlier[1].rows1
        /\ result.kind = first.kind
        /\ result.kind = "returned" => result.count = first.count

\* Both calls have stored two records, and the store has one date more
\* than it had
C27_Witness ==
    /\ PairDone
    /\ result.kind = "returned" /\ result.count = 2
    /\ rows # earlier[1].rows0
    /\ Cardinality(rows) = Cardinality(earlier[1].rows0) + 1

-----------------------------------------------------------------------------
(* A fetch that exhausts its retries *)

\* The step enters _fetch_from_api, or is a requests.get that fails
FetchOnly ==
    \/ pc \in {"idle", "paced"} /\ pc' = "request"
    \/ pc = "request" /\ pc' # "fetched"

\* fetch_incremental or fetch_full is over because its requests were
\* exhausted
SyncExhausted ==
    /\ op.kind \in SyncKinds /\ pc = "done"
    /\ exhausted # {}

\* C31 (a failed fetch leaves the store untouched): when the fetch of
\* fetch_incremental or fetch_full exhausts its retries the call raises
\* without having called insert_records, and no step from the start of the
\* call to the raise changes the store; in a backfill the steps of a date
\* whose fetch fails change nothing in the store.
C31_FailedFetchFrame ==
    /\ [](SyncExhausted =>
            /\ result = Raised("RuntimeError")
            /\ ninsert = 0 /\ payload = NoPayload /\ batch = <<>>)
    /\ [][FetchOnly => rows' = rows /\ ninsert' = ninsert]_vars

\* fetch_incremental or fetch_full has raised after MAX_RETRIES failed
\* requests, on a store that holds rows
C31_Witness ==
    /\ SyncExhausted
    /\ nfail = MAX_RETRIES
    /\ rows # {}

-----------------------------------------------------------------------------
(* One fetch_incremental after another *)

\* A fetch_incremental call has followed another one on the same day and
\* has made its request or returned
Followed == earlier # None /\ pc # "idle"

\* The earlier call returned after storing a record of value > 0 dated
\* yesterday or later, which the store held when the call returned
StoredFresh ==
    /\ earlier[1].first.kind = "returned"
    /\ \E i \in DOMAIN earlier[1].batch :
        /\ earlier[1].batch[i].date >= today - 1
        /\ earlier[1].batch[i].value > 0
        /\ earlier[1].batch[i] \in earlier[1].rows1

\* The earlier call made a request and every record it got was dated
\* before the start it had asked for
OnlyOlder ==
    /\ earlier[1].calls # <<>>
    /\ earlier[1].first.kind = "returned"
    /\ \A i \in DOMAIN earlier[1].batch :
        earlier[1].batch[i].date < earlier[1].calls[1]

\* After a call that stored a fresh record the next one makes no request
\* and reports that the store is current
ConvergesWhenFresh ==
    (Followed /\ StoredFresh) =>
        /\ pc = "done"
        /\ result = Returned(0, "already_current")
        /\ calls = <<>> /\ nreq = 0

\* C32 (incremental sync converges): after a fetch_incremental that stored
\* a record of value > 0 dated yesterday or later, the next fetch_incremental
\* of the same day makes no request and reports already current; after one
\* whose records were all dated before the requested start, the next
\* call makes the same request again.
C32_IncrementalConverges ==
    /\ ConvergesWhenFresh
    /\ (Followed /\ OnlyOlder) => calls = earlier[1].calls

\* When in addition none of the older records has the value 0, the next call
\* makes the same request again
RepeatsWhenOlderGenuine ==
    (Followed /\ OnlyOlder /\ \A i \in DOMAIN earlier[1].batch :
                                  earlier[1].batch[i].value > 0) =>
        calls = earlier[1].calls

-----------------------------------------------------------------------------
(* Several records of one date in a batch *)

\* The positions of the batch that hold a record of date d
PositionsOf(d) == {i \in DOMAIN batch : batch[i].date = d}

\* insert_records(batch) has returned from its first call
BatchStored ==
    /\ op.kind = "insert_records" /\ pc = "called"
    /\ result.kind = "returned"

\* C36 (several records of one date in a batch): after insert_records the
\* store has one row for each date of the batch, with the value of the last
\* record of that date in the order of the batch, and the rows of the dates
\* that are not in the batch are as they were.
C36_LastOfDateWins ==
    BatchStored =>
        /\ \A i \in DOMAIN batch :
            LET d == batch[i].date IN
            {r \in rows : r.date = d} = {batch[MaxOf(PositionsOf(d))]}
        /\ \A d \in (Days \cup {r.date : r \in pre}) :
            PositionsOf(d) = {} =>
                {r \in rows : r.date = d} = {r \in pre : r.date = d}

\* A batch of two records of one date with different values was stored in
\* a store that had a row of that date and a row of another date
C36_Witness ==
    /\ BatchStored
    /\ Len(batch) = 2
    /\ batch[1].date = batch[2].date /\ batch[1].value # batch[2].value
    /\ batch[2] \in rows /\ batch[1] \notin rows
    /\ \E r \in pre : r.date = batch[1].date
    /\ \E r \in pre : r.date # batch[1].date /\ r \in rows

-----------------------------------------------------------------------------
(* The distribution *)

RECURSIVE SumTo(_, _)
SumTo(c, n) == IF n = 0 THEN 0 ELSE c[n] + SumTo(c, n - 1)

\* get_distribution has answered
DistributionRead == pc = "done" /\ op.kind = "get_distribution"

\* The ranges of get_distribution that count the row r
RangesOf(r) ==
    {i \in DOMAIN DistributionRanges : r \in RangeRows(rows, DistributionRanges[i])}

\* C35 (the distribution covers the store): in every store filled through
\* the validation pipeline the counts of get_distribution sum to
\* record_count(), every row of value > 0 is counted in exactly one range,
\* and that range is the band get_level_info and get_rating give its value:
\* the count of a range is the number of value > 0 rows they put in its band.
C35_DistributionCoversStore ==
    DistributionRead =>
        /\ SumTo(result.counts, Len(DistributionRanges)) = RecordCount(rows)
        /\ \A r \in Genuine(rows) :
            /\ Cardinality(RangesOf(r)) = 1
            /\ \A i \in RangesOf(r) :
                /\ GetLevelInfo(r.value) = FNG_LEVELS[i].name
                /\ GetRating(r.value) = FNG_LEVELS[i].name
        /\ \A i \in DOMAIN DistributionRanges :
            result.counts[i] =
                Cardinality({r \in Genuine(rows) : GetLevelInfo(r.value) = FNG_LEVELS[i].name})

\* The distribution of a store that holds 100, which only the fallback of
\* get_level_info classifies, and 25, the lower end of a band
C35_Witness ==
    /\ DistributionRead
    /\ {r.value : r \in Genuine(rows)} = {25, 100}
    /\ result.counts = <<0, 1, 0, 0, 1>>

-----------------------------------------------------------------------------
(* The scheduler *)

\* C25 (no overlapping runs): under the scheduler at most one run_update
\* is in progress at any time; a scheduled run never starts while the first
\* run or an earlier scheduled run is still executing.
C25_NoOverlap ==
    /\ sched.active \in {0, 1}
    /\ (sched.active = 1) = (sched.step # "none")
    /\ sched.phase \in {"off", "loop", "exited"} => sched.active = 0 /\ pc = "idle"
    /\ pc # "idle" => sched.active = 1 /\ sched.step = "fetch"

\* A scheduled run is in the middle of its fetch when the job is due again
C25_Witness ==
    /\ sched.phase = "job" /\ sched.active = 1 /\ sched.due
    /\ pc = "request" /\ attempt = 2

\* Errors that fetch_incremental raises
FetchErrors == {Some("RuntimeError"), Some("sqlite3.Error")}

\* run_update is about to return results after its fetch_incremental raised
CycleFailed ==
    /\ sched.step = "end"
    /\ sched.results.data_update = None

\* C33 (the scheduler survives a failed cycle): run_update never raises;
\* when the data fetch fails it records the error, skips the generation of
\* the documents and the creation of the version for that cycle and still
\* returns its results, and the loop of the scheduler goes on: the next
\* cycle runs when it is due.
C33_SurvivesFailedCycle ==
    /\ (sched.step = "fetch" /\ pc = "done") => ENABLED RunAfterFetch
    /\ CycleFailed =>
        /\ sched.results.error \in FetchErrors
        /\ ~sched.results.doc_generated /\ ~sched.results.version_created
        /\ ENABLED RunEnd
    /\ sched.last.error # None =>
        /\ sched.phase \in {"loop", "job", "exited"}
        /\ (sched.phase = "loop" /\ sched.due) => ENABLED RunBegin

\* A scheduled cycle is fetching after the cycle before it failed with
\* exhausted requests
C33_Witness ==
    /\ sched.phase = "job" /\ sched.step = "fetch" /\ pc = "request"
    /\ sched.last.error = Some("RuntimeError")
    /\ sched.last.data_update = None

====
